---- MODULE Spec2Model ----
(***************************************************************************)
(* Tick locators and labelers of src/ticker.py (Python 2).                  *)
(*                                                                         *)
(* One object is alive at a time: `self` holds its class (cls) and its      *)
(* instance attributes, `call` is the last method invocation together with  *)
(* its arguments and `ret` is what that invocation produced (a returned     *)
(* value or a raised exception).                                            *)
(*                                                                         *)
(* Python values are records [t, n, d, s, l]: t is the Python type, n/d the *)
(* numeric value as a fraction in lowest terms (ints have d = 1), s the     *)
(* characters of a str and l the items of a list or tuple.  Float           *)
(* arithmetic is carried out exactly on these fractions.                    *)
(***************************************************************************)
EXTENDS Integers, Sequences, FiniteSets, TLC

VARIABLES self, call, ret

vars == <<self, call, ret>>

\* ---------------------------------------------------------------- bounds

\* Largest integer handed to a setter, and largest range coordinate.
MaxInt == 3
\* Longest list handed to setLocations / setLabels / labels().
MaxLen == 6

\* ---------------------------------------------------------- Python values

PyVal(t, n, d, s, l) == [t |-> t, n |-> n, d |-> d, s |-> s, l |-> l]

PyNone == PyVal("NoneType", 0, 1, <<>>, <<>>)
PyInt(k) == PyVal("int", k, 1, <<>>, <<>>)
PyStr(s) == PyVal("str", 0, 1, s, <<>>)
PyList(l) == PyVal("list", 0, 1, <<>>, l)
PyTuple(l) == PyVal("tuple", 0, 1, <<>>, l)

Abs(k) == IF k < 0 THEN -k ELSE k

RECURSIVE Gcd(_, _)
Gcd(a, b) == IF b = 0 THEN a ELSE Gcd(b, a % b)

\* n/d as a float, in lowest terms with a positive denominator
PyFloat(n, d) ==
    LET g == Gcd(Abs(n), Abs(d))
        sgn == IF d < 0 THEN -1 ELSE 1
    IN PyVal("float", sgn * (n \div g), sgn * (d \div g), <<>>, <<>>)

\* isinstance(v, int): in Python 2 a float, str, None, list is not an int
IsInt(v) == v.t = "int"
\* isinstance(v, int) or isinstance(v, float)
IsNumber(v) == v.t = "int" \/ v.t = "float"
\* isinstance(v, list) or isinstance(v, tuple)
IsListOrTuple(v) == v.t = "list" \/ v.t = "tuple"
\* isinstance(v, str)
IsStr(v) == v.t = "str"
\* v is None
IsNone(v) == v.t = "NoneType"

\* float(v) of a number
ToFloat(v) == PyFloat(v.n, v.d)

\* a + b, a - b on numbers: int when both are ints, float otherwise
Arith(t, n, d) == IF t = "int" THEN PyInt(n) ELSE PyFloat(n, d)
NumType(a, b) == IF a.t = "int" /\ b.t = "int" THEN "int" ELSE "float"
Add(a, b) == Arith(NumType(a, b), a.n * b.d + b.n * a.d, a.d * b.d)
Sub(a, b) == Arith(NumType(a, b), a.n * b.d - b.n * a.d, a.d * b.d)
\* a * b: a product of numbers, or a str repeated (b < 1 gives '')
Repeat(s, k) == [i \in 1..(Len(s) * k) |-> s[((i - 1) % Len(s)) + 1]]
Mul(a, b) ==
    IF a.t = "str" THEN PyStr(Repeat(a.s, IF b.n < 0 THEN 0 ELSE b.n))
    ELSE Arith(NumType(a, b), a.n * b.n, a.d * b.d)
\* a * b raises TypeError for a str and a non-int
MulRaises(a, b) == a.t = "str" /\ b.t # "int"
\* a < b, a > b, a <= b, a >= b on numbers
Lt(a, b) == a.n * b.d < b.n * a.d
Gt(a, b) == Lt(b, a)
Le(a, b) == ~Lt(b, a)
Ge(a, b) == ~Lt(a, b)
\* numeric equality (2 == 2.0 in Python)
NumEq(a, b) == a.n * b.d = b.n * a.d

\* What a call produced: a returned value, or the exception it raised.
Returned(v) == [raised |-> "", value |-> v]
Raised(e) == [raised |-> e, value |-> PyNone]

\* kwargs.pop(key, default) / kwargs[key]: kwargs maps keyword names to values
Pop(kwargs, key, default) ==
    IF key \in DOMAIN kwargs THEN kwargs[key] ELSE default

\* Reading an instance attribute that __init__ never assigned.
NoAttribute == PyVal("(no attribute)", 0, 1, <<>>, <<>>)

\* ---------------------------------------------------------- NullLocator

NullLocator_init == [cls |-> "NullLocator"]

NullLocator_locations(s, start, end, axisType) == Returned(PyList(<<>>))

\* Locator.setValues: pass
Locator_setValues(s, kwargs) == s

\* -------------------------------------------------------- LinearLocator

\* setNum without the isinstance test
LinearLocator_setNum_Unchecked(s, num) == [s EXCEPT !.num = num]

LinearLocator_setNum(s, num) ==
    IF IsInt(num) THEN [s EXCEPT !.num = num] ELSE s

LinearLocator_init(num) ==
    LinearLocator_setNum([cls |-> "LinearLocator", num |-> PyInt(5)], num)

\* for i in range(k): locs.append(start); start += delta
RECURSIVE LinearLoop(_, _, _, _)
LinearLoop(k, start, delta, locs) ==
    IF k <= 0 THEN locs
    ELSE LinearLoop(k - 1, Add(start, delta), delta, Append(locs, start))

\* locations() whose loop runs range(num) instead of range(num - 1)
LinearLocator_locations_OffByOne(s, start, end, axisType) ==
    LET num == IF axisType = "minor" THEN s.num.n + 2 ELSE s.num.n
    IN  IF num - 1 = 0 THEN Raised("ZeroDivisionError")
        ELSE LET diff == Sub(ToFloat(end), ToFloat(start))
                 delta == PyFloat(diff.n, diff.d * (num - 1))
                 locs == LinearLoop(num, start, delta, <<>>)
             IN  Returned(PyList(Append(locs, end)))

LinearLocator_locations(s, start, end, axisType) ==
    LET num == IF axisType = "minor" THEN s.num.n + 2 ELSE s.num.n
    IN  IF num - 1 = 0 THEN Raised("ZeroDivisionError")
        ELSE LET diff == Sub(ToFloat(end), ToFloat(start))
                 delta == PyFloat(diff.n, diff.d * (num - 1))
                 locs == LinearLoop(num - 1, start, delta, <<>>)
             IN  Returned(PyList(Append(locs, end)))

LinearLocator_setValues(s, kwargs) ==
    LinearLocator_setNum(s, Pop(kwargs, "num", PyNone))

\* --------------------------------------------------------- FixedLocator

FixedLocator_setLocations(s, locations) ==
    IF IsListOrTuple(locations) THEN [s EXCEPT !.locations = locations] ELSE s

FixedLocator_setNTicks(s, nTicks) ==
    IF IsNone(nTicks) THEN [s EXCEPT !.nTicks = PyNone]
    ELSE IF IsInt(nTicks)
         THEN IF nTicks.n < 2 THEN [s EXCEPT !.nTicks = PyInt(2)]
              ELSE [s EXCEPT !.nTicks = nTicks]
         ELSE s

\* self._nTicks is first assigned by setNTicks: it does not exist until a
\* valid value has been given.
FixedLocator_init(locations, nTicks) ==
    FixedLocator_setNTicks(
        FixedLocator_setLocations(
            [cls |-> "FixedLocator", locations |-> PyList(<<>>),
             nTicks |-> NoAttribute],
            locations),
        nTicks)

\* int(p / q) without round()
RoundDiv_Truncates(p, q) == p \div q

\* int(round(p / q)) for p >= 0, q > 0: Python 2 rounds halves away from zero
RoundDiv(p, q) == (2 * p + q) \div (2 * q)

\* The locations picked by the subsampling loop and the final append:
\* index int(round(i * float(len - 1) / float(n))) for i in range(n), then [-1].
\* Python sequences are 0-based, TLA+ sequences 1-based.
Subsample(locs, n) ==
    LET len == Len(locs)
    IN  [i \in 1..(n + 1) |->
            IF i <= n THEN locs[RoundDiv((i - 1) * (len - 1), n) + 1]
            ELSE locs[len]]

\* locations() that keeps the subsample in self._locations
FixedLocator_locations_StoresSample(s, start, end, axisType) ==
    IF s.nTicks = NoAttribute
    THEN [self |-> s, ret |-> Raised("AttributeError")]
    ELSE IF IsNone(s.nTicks) \/ s.nTicks.n >= Len(s.locations.l)
    THEN [self |-> s, ret |-> Returned(s.locations)]
    ELSE LET sample == PyList(Subsample(s.locations.l, s.nTicks.n - 1))
         IN  [self |-> [s EXCEPT !.locations = sample], ret |-> Returned(sample)]

\* Returns the new attributes and the outcome: the method assigns
\* self._nTicks when it finds it below 2.
FixedLocator_locations(s, start, end, axisType) ==
    IF s.nTicks = NoAttribute
    THEN [self |-> s, ret |-> Raised("AttributeError")]
    ELSE IF IsNone(s.nTicks) \/ s.nTicks.n >= Len(s.locations.l)
    THEN [self |-> s, ret |-> Returned(s.locations)]
    ELSE LET s2 == IF s.nTicks.n < 2 THEN [s EXCEPT !.nTicks = PyInt(2)] ELSE s
             n == s2.nTicks.n - 1
         IN  [self |-> s2, ret |-> Returned(PyList(Subsample(s2.locations.l, n)))]

FixedLocator_setValues(s, kwargs) ==
    LET s1 == IF "locations" \in DOMAIN kwargs
              THEN FixedLocator_setLocations(s, kwargs["locations"]) ELSE s
    IN  IF "nTicks" \in DOMAIN kwargs
        THEN FixedLocator_setNTicks(s1, kwargs["nTicks"]) ELSE s1

\* -------------------------------------------------------- SpacedLocator

SpacedLocator_setBase(s, base) ==
    IF IsNumber(base) /\ Gt(base, PyInt(0)) THEN [s EXCEPT !.base = base] ELSE s

SpacedLocator_setAnchor(s, anchor) ==
    IF IsNumber(anchor) \/ IsNone(anchor) THEN [s EXCEPT !.anchor = anchor] ELSE s

SpacedLocator_init(base, anchor) ==
    SpacedLocator_setAnchor(
        SpacedLocator_setBase(
            [cls |-> "SpacedLocator", base |-> PyFloat(1, 1), anchor |-> PyNone],
            base),
        anchor)

\* The forward walk without the append that follows the loop
RECURSIVE WalkForward_NoFinalAppend(_, _, _, _)
WalkForward_NoFinalAppend(loc, end, base, locs) ==
    IF Lt(loc, end)
    THEN WalkForward_NoFinalAppend(Add(loc, base), end, base, Append(locs, loc))
    ELSE locs

\* while loc < end: locs.append(loc); loc += base
\* locs.append(loc)
RECURSIVE WalkForward(_, _, _, _)
WalkForward(loc, end, base, locs) ==
    IF Lt(loc, end) THEN WalkForward(Add(loc, base), end, base, Append(locs, loc))
    ELSE Append(locs, loc)

\* while loc > start: locs.insert(0, loc); loc -= base
\* locs.insert(0, loc)
RECURSIVE WalkBackward(_, _, _, _)
WalkBackward(loc, start, base, locs) ==
    IF Gt(loc, start) THEN WalkBackward(Sub(loc, base), start, base, <<loc>> \o locs)
    ELSE <<loc>> \o locs

SpacedLocator_locations(s, start, end, axisType) ==
    IF IsNone(s.anchor)
    THEN Returned(PyList(WalkForward(start, end, s.base, <<>>)))
    ELSE Returned(PyList(
            WalkForward(Add(s.anchor, s.base), end, s.base,
                        WalkBackward(s.anchor, start, s.base, <<>>))))

\* setValues whose anchor defaults to None, like its base
SpacedLocator_setValues_NoneDefault(s, kwargs) ==
    SpacedLocator_setAnchor(
        SpacedLocator_setBase(s, Pop(kwargs, "base", PyNone)),
        Pop(kwargs, "anchor", PyNone))

\* anchor defaults to '' because None is a valid anchor
SpacedLocator_setValues(s, kwargs) ==
    SpacedLocator_setAnchor(
        SpacedLocator_setBase(s, Pop(kwargs, "base", PyNone)),
        Pop(kwargs, "anchor", PyStr(<<>>)))

\* ----------------------------------------------------------- LogLocator

LogLocator_setBase(s, base) ==
    IF IsNumber(base) THEN [s EXCEPT !.base = base] ELSE s

\* list(subdivisions): a tuple is stored as a list
LogLocator_setSubdivisions(s, subdivisions) ==
    IF IsListOrTuple(subdivisions)
    THEN [s EXCEPT !.subdivisions = PyList(subdivisions.l)] ELSE s

LogLocator_init(base, subdivisions) ==
    LogLocator_setSubdivisions(
        LogLocator_setBase(
            [cls |-> "LogLocator", base |-> PyInt(10),
             subdivisions |-> PyList(<<PyInt(1)>>)],
            base),
        subdivisions)

\* pow(base, e) for an integer e: an int for an int base and e >= 0, a float
\* otherwise (Python 2)
RECURSIVE PowNat(_, _)
PowNat(b, e) == IF e = 0 THEN 1 ELSE b * PowNat(b, e - 1)

Pow(base, e) ==
    IF e >= 0
    THEN Arith(base.t, PowNat(base.n, e), PowNat(base.d, e))
    ELSE PyFloat(PowNat(base.d, -e), PowNat(base.n, -e))

\* math.log(x, base) raises ValueError for x <= 0, then for base <= 0, and
\* ZeroDivisionError for base == 1 (log(base) is 0.0); "" when it returns.
MathLogError(x, base) ==
    IF Le(x, PyInt(0)) THEN "ValueError"
    ELSE IF Le(base, PyInt(0)) THEN "ValueError"
    ELSE IF NumEq(base, PyInt(1)) THEN "ZeroDivisionError"
    ELSE ""

\* The greatest e with b^e <= x and the least e with b^e >= x, for b > 1, x > 0
RECURSIVE FloorLogFrom(_, _, _)
FloorLogFrom(x, b, e) ==
    IF Gt(Pow(b, e), x) THEN FloorLogFrom(x, b, e - 1)
    ELSE IF Le(Pow(b, e + 1), x) THEN FloorLogFrom(x, b, e + 1)
    ELSE e

RECURSIVE CeilLogFrom(_, _, _)
CeilLogFrom(x, b, e) ==
    IF Lt(Pow(b, e), x) THEN CeilLogFrom(x, b, e + 1)
    ELSE IF Ge(Pow(b, e - 1), x) THEN CeilLogFrom(x, b, e - 1)
    ELSE e

\* math.log(x, base) is the double log(x) / log(base).  For these integer x,
\* base with x an exact power of base (x <= 1000) the quotient is not the
\* integer log_base(x): 4.999999999999999 for <<243, 3>> and
\* 2.9999999999999996 for <<1000, 10>> fall below it, 3.0000000000000004 for
\* <<125, 5>> and <<216, 6>> falls above it.
MathLogBelow == {<<243, 3>>, <<1000, 10>>}
MathLogAbove == {<<125, 5>>, <<216, 6>>}
MathLogIn(x, base, table) == x.d = 1 /\ base.d = 1 /\ <<x.n, base.n>> \in table

\* int(math.floor(math.log(x, base))) and int(math.ceil(math.log(x, base)))
\* where math.log returns; for 0 < base < 1, log_base(x) = -log_(1/base)(x)
FloorLog(x, base) ==
    IF MathLogIn(x, base, MathLogBelow) THEN FloorLogFrom(x, base, 0) - 1
    ELSE IF Gt(base, PyInt(1)) THEN FloorLogFrom(x, base, 0)
    ELSE -CeilLogFrom(x, PyFloat(base.d, base.n), 0)

CeilLog(x, base) ==
    IF MathLogIn(x, base, MathLogAbove) THEN CeilLogFrom(x, base, 0) + 1
    ELSE IF Gt(base, PyInt(1)) THEN CeilLogFrom(x, base, 0)
    ELSE -FloorLogFrom(x, PyFloat(base.d, base.n), 0)

\* [x * pow(base, exponent) for x in subdivisions]
Decade(subdivisions, base, exponent) ==
    [i \in 1..Len(subdivisions) |-> Mul(subdivisions[i], Pow(base, exponent))]

\* while exponent <= lastExponent: locs.extend(...); exponent += 1
RECURSIVE LogLoop(_, _, _, _, _)
LogLoop(exponent, lastExponent, subdivisions, base, locs) ==
    IF exponent <= lastExponent
    THEN LogLoop(exponent + 1, lastExponent, subdivisions, base,
                 locs \o Decade(subdivisions, base, exponent))
    ELSE locs

\* except ValueError: exponent = 0; any other exception propagates
LogLocator_locations(s, start, end, axisType) ==
    LET e1 == MathLogError(start, s.base)
        e2 == MathLogError(end, s.base)
        exponent == IF e1 = "ValueError" THEN 0 ELSE FloorLog(start, s.base)
        lastExponent == IF e2 = "ValueError" THEN 0 ELSE CeilLog(end, s.base)
        subs == s.subdivisions.l
    IN  IF e1 = "ZeroDivisionError" \/ e2 = "ZeroDivisionError"
        THEN Raised("ZeroDivisionError")
        ELSE IF \E e \in exponent..lastExponent : \E i \in 1..Len(subs) :
                    MulRaises(subs[i], Pow(s.base, e))
        THEN Raised("TypeError")
        ELSE Returned(PyList(LogLoop(exponent, lastExponent, subs, s.base, <<>>)))

LogLocator_setValues(s, kwargs) ==
    LogLocator_setSubdivisions(
        LogLocator_setBase(s, Pop(kwargs, "base", PyNone)),
        Pop(kwargs, "subdivisions", PyNone))

\* ------------------------------------------------------------- str, %

Digits == <<"0", "1", "2", "3", "4", "5", "6", "7", "8", "9">>

RECURSIVE NatStr(_)
NatStr(k) ==
    IF k < 10 THEN <<Digits[k + 1]>>
    ELSE NatStr(k \div 10) \o <<Digits[(k % 10) + 1]>>

IntStr(k) == IF k < 0 THEN <<"-">> \o NatStr(-k) ELSE NatStr(k)

\* str(v) of an int, of a str, and of a float with at most one decimal
\* ('2.0', '-0.5'); the characters of a str are kept
Str(v) ==
    IF v.t = "str" THEN v.s
    ELSE IF v.t = "int" THEN IntStr(v.n)
    ELSE LET a == Abs(v.n)
         IN  (IF v.n < 0 THEN <<"-">> ELSE <<>>)
             \o NatStr(a \div v.d) \o <<".">>
             \o NatStr(((a % v.d) * 10) \div v.d)

\* int(v) of a number: truncation toward zero
Trunc(v) == IF v.n < 0 THEN -((-v.n) \div v.d) ELSE v.n \div v.d

\* fmt % loc for a loc that is a number or a str (one argument).  Scans fmt
\* from character i; used says whether the argument has been consumed.
\* %d and %s convert the argument, %% is a literal percent sign.
RECURSIVE FormatFrom(_, _, _, _, _)
FormatFrom(fmt, i, loc, used, out) ==
    IF i > Len(fmt)
    THEN IF used THEN [raised |-> "", s |-> out]
         ELSE [raised |-> "TypeError", s |-> <<>>]
    ELSE IF fmt[i] # "%"
    THEN FormatFrom(fmt, i + 1, loc, used, Append(out, fmt[i]))
    ELSE IF i = Len(fmt) THEN [raised |-> "ValueError", s |-> <<>>]
    ELSE IF fmt[i + 1] = "%"
    THEN FormatFrom(fmt, i + 2, loc, used, Append(out, "%"))
    ELSE IF used THEN [raised |-> "TypeError", s |-> <<>>]
    ELSE IF fmt[i + 1] \notin {"d", "s"}
    THEN [raised |-> "ValueError", s |-> <<>>]
    ELSE IF fmt[i + 1] = "s"
    THEN FormatFrom(fmt, i + 2, loc, TRUE, out \o Str(loc))
    ELSE IF IsNumber(loc)
    THEN FormatFrom(fmt, i + 2, loc, TRUE, out \o IntStr(Trunc(loc)))
    ELSE [raised |-> "TypeError", s |-> <<>>]

Format(fmt, loc) == FormatFrom(fmt, 1, loc, FALSE, <<>>)

\* ------------------------------------------------------------- Labelers

\* Labeler.setValues: pass; StringLabeler and FormatLabeler do not override it
Labeler_setValues(s, kwargs) == s

NullLabeler_init == [cls |-> "NullLabeler"]

\* [''] * len(locations)
NullLabeler_labels(s, locations) ==
    Returned(PyList([i \in 1..Len(locations.l) |-> PyStr(<<>>)]))

\* list(labels): a tuple is stored as a list
StringLabeler_setLabels(s, labels) ==
    IF IsListOrTuple(labels) THEN [s EXCEPT !.labels = PyList(labels.l)] ELSE s

StringLabeler_init(labels) ==
    StringLabeler_setLabels([cls |-> "StringLabeler", labels |-> PyList(<<>>)],
                            labels)

\* map(str, strings)
StringLabeler_labels(s, locations) ==
    LET locsLength == Len(locations.l)
        labelsLength == Len(s.labels.l)
        strings ==
            IF locsLength = labelsLength THEN s.labels.l
            ELSE IF locsLength > labelsLength
            THEN s.labels.l \o [i \in 1..(locsLength - labelsLength) |-> PyStr(<<>>)]
            ELSE SubSeq(s.labels.l, 1, locsLength)
    IN  Returned(PyList([i \in 1..Len(strings) |-> PyStr(Str(strings[i]))]))

FormatLabeler_setFormatter(s, fmt) ==
    IF IsStr(fmt) \/ IsNone(fmt) THEN [s EXCEPT !.fmt = fmt] ELSE s

FormatLabeler_init(fmt) ==
    FormatLabeler_setFormatter([cls |-> "FormatLabeler", fmt |-> PyNone], fmt)

\* map(str, locations), or map(lambda loc: self._fmt % loc, locations): the
\* first location whose formatting raises makes the call raise
FormatLabeler_labels(s, locations) ==
    IF IsNone(s.fmt)
    THEN Returned(PyList([i \in 1..Len(locations.l) |-> PyStr(Str(locations.l[i]))]))
    ELSE LET strings == [i \in 1..Len(locations.l) |-> Format(s.fmt.s, locations.l[i])]
             bad == {i \in 1..Len(locations.l) : strings[i].raised # ""}
         IN  IF bad = {}
             THEN Returned(PyList([i \in 1..Len(locations.l) |-> PyStr(strings[i].s)]))
             ELSE Raised(strings[CHOOSE i \in bad : \A j \in bad : i <= j].raised)

\* --------------------------------------------------------------- inputs

IntVals == {PyInt(k) : k \in -1..MaxInt}
FloatVals == {PyFloat(1, 2), PyFloat(2, 1)}
StrVals == {PyStr(<<>>), PyStr(<<"%", "d">>), PyStr(<<"x", "%", "s">>),
            PyStr(<<"%", "d", "%", "d">>)}
Ramp(k) == [i \in 1..k |-> PyInt(i)]
ShortLists == {PyList(Ramp(0)), PyList(Ramp(2)), PyTuple(Ramp(2)),
               PyList(<<PyStr(<<"a">>), PyStr(<<"b">>)>>),
               PyList(<<PyInt(3), PyFloat(1, 2), PyInt(1)>>)}

\* What a caller may hand to a constructor or a setter
Values == IntVals \cup FloatVals \cup {PyNone} \cup StrVals \cup ShortLists

\* Lists of locations and of labels, up to MaxLen long
ListVals == ShortLists \cup {PyList(Ramp(k)) : k \in 0..MaxLen}

\* The axis range: start <= end
Coords == {PyInt(-1), PyInt(0), PyFloat(1, 2), PyInt(1), PyInt(MaxInt)}
Ranges == {r \in Coords \X Coords : Le(r[1], r[2])}
\* The axis range of a logarithmic axis: also three decades up
LogCoords == Coords \cup {PyInt(1000)}
LogRanges == {r \in LogCoords \X LogCoords : Le(r[1], r[2])}
AxisTypes == {"major", "minor"}

\* **kwargs: the recognised keywords `keys`, each present or absent, and
\* possibly a keyword no class knows
KwVals == {PyNone, PyInt(0), PyInt(2), PyStr(<<"%", "d">>), PyList(Ramp(2))}
Kwargs(keys) ==
    UNION {[K -> KwVals] : K \in SUBSET keys}
KwExtra(kw, extra) ==
    IF extra THEN [k \in DOMAIN kw \cup {"color"} |->
                     IF k = "color" THEN PyStr(<<"a">>) ELSE kw[k]]
    ELSE kw

Call(op, args) == [op |-> op, args |-> args]

\* ----------------------------------------------------------------- Init

Init ==
    /\ \/ self = NullLocator_init /\ call = Call("__init__", <<>>)
       \/ \E num \in Values :
            self = LinearLocator_init(num) /\ call = Call("__init__", <<num>>)
       \/ \E locations \in Values, nTicks \in Values :
            /\ self = FixedLocator_init(locations, nTicks)
            /\ call = Call("__init__", <<locations, nTicks>>)
       \/ \E base \in Values, anchor \in Values :
            /\ self = SpacedLocator_init(base, anchor)
            /\ call = Call("__init__", <<base, anchor>>)
       \/ \E base \in Values, subdivisions \in Values :
            /\ self = LogLocator_init(base, subdivisions)
            /\ call = Call("__init__", <<base, subdivisions>>)
       \/ self = NullLabeler_init /\ call = Call("__init__", <<>>)
       \/ \E labels \in Values :
            self = StringLabeler_init(labels) /\ call = Call("__init__", <<labels>>)
       \/ \E fmt \in Values :
            self = FormatLabeler_init(fmt) /\ call = Call("__init__", <<fmt>>)
    /\ ret = Returned(PyNone)

\* -------------------------------------------------------------- actions

\* A setter: self becomes f(self, v), the call returns None
Setter(cls, op, v, new) ==
    /\ self.cls = cls
    /\ self' = new
    /\ call' = Call(op, <<v>>)
    /\ ret' = Returned(PyNone)

\* setValues(**kwargs)
Configure(cls, kw, new) ==
    /\ self.cls = cls
    /\ self' = new
    /\ call' = Call("setValues", <<kw>>)
    /\ ret' = Returned(PyNone)

\* locations(start, end, axisType) of a class that assigns no attribute
Query(cls, r, axisType, result) ==
    /\ self.cls = cls
    /\ self' = self
    /\ call' = Call("locations", <<r[1], r[2], axisType>>)
    /\ ret' = result

NullLocatorLocations ==
    \E r \in Ranges, axisType \in AxisTypes :
        Query("NullLocator", r, axisType,
              NullLocator_locations(self, r[1], r[2], axisType))

NullLocatorSetValues ==
    \E kw \in Kwargs({}), extra \in BOOLEAN :
        Configure("NullLocator", KwExtra(kw, extra),
                  Locator_setValues(self, KwExtra(kw, extra)))

LinearLocatorSetNum ==
    \E num \in Values :
        Setter("LinearLocator", "setNum", num, LinearLocator_setNum(self, num))

LinearLocatorLocations ==
    \E r \in Ranges, axisType \in AxisTypes :
        Query("LinearLocator", r, axisType,
              LinearLocator_locations(self, r[1], r[2], axisType))

LinearLocatorSetValues ==
    \E kw \in Kwargs({"num"}), extra \in BOOLEAN :
        Configure("LinearLocator", KwExtra(kw, extra),
                  LinearLocator_setValues(self, KwExtra(kw, extra)))

FixedLocatorSetLocations ==
    \E locations \in Values \cup ListVals :
        Setter("FixedLocator", "setLocations", locations,
               FixedLocator_setLocations(self, locations))

FixedLocatorSetNTicks ==
    \E nTicks \in Values :
        Setter("FixedLocator", "setNTicks", nTicks,
               FixedLocator_setNTicks(self, nTicks))

FixedLocatorLocations ==
    \E r \in Ranges, axisType \in AxisTypes :
        LET out == FixedLocator_locations(self, r[1], r[2], axisType)
        IN  /\ self.cls = "FixedLocator"
            /\ self' = out.self
            /\ call' = Call("locations", <<r[1], r[2], axisType>>)
            /\ ret' = out.ret

FixedLocatorSetValues ==
    \E kw \in Kwargs({"locations", "nTicks"}), extra \in BOOLEAN :
        Configure("FixedLocator", KwExtra(kw, extra),
                  FixedLocator_setValues(self, KwExtra(kw, extra)))

SpacedLocatorSetBase ==
    \E base \in Values :
        Setter("SpacedLocator", "setBase", base, SpacedLocator_setBase(self, base))

SpacedLocatorSetAnchor ==
    \E anchor \in Values :
        Setter("SpacedLocator", "setAnchor", anchor,
               SpacedLocator_setAnchor(self, anchor))

SpacedLocatorLocations ==
    \E r \in Ranges, axisType \in AxisTypes :
        Query("SpacedLocator", r, axisType,
              SpacedLocator_locations(self, r[1], r[2], axisType))

SpacedLocatorSetValues ==
    \E kw \in Kwargs({"base", "anchor"}), extra \in BOOLEAN :
        Configure("SpacedLocator", KwExtra(kw, extra),
                  SpacedLocator_setValues(self, KwExtra(kw, extra)))

LogLocatorSetBase ==
    \E base \in Values :
        Setter("LogLocator", "setBase", base, LogLocator_setBase(self, base))

LogLocatorSetSubdivisions ==
    \E subdivisions \in Values :
        Setter("LogLocator", "setSubdivisions", subdivisions,
               LogLocator_setSubdivisions(self, subdivisions))

LogLocatorLocations ==
    \E r \in LogRanges, axisType \in AxisTypes :
        Query("LogLocator", r, axisType,
              LogLocator_locations(self, r[1], r[2], axisType))

LogLocatorSetValues ==
    \E kw \in Kwargs({"base", "subdivisions"}), extra \in BOOLEAN :
        Configure("LogLocator", KwExtra(kw, extra),
                  LogLocator_setValues(self, KwExtra(kw, extra)))

\* labels(locations) of a class that assigns no attribute
Label(cls, locations, result) ==
    /\ self.cls = cls
    /\ self' = self
    /\ call' = Call("labels", <<locations>>)
    /\ ret' = result

NullLabelerLabels ==
    \E locations \in ListVals :
        Label("NullLabeler", locations, NullLabeler_labels(self, locations))

NullLabelerSetValues ==
    \E kw \in Kwargs({"labels"}), extra \in BOOLEAN :
        Configure("NullLabeler", KwExtra(kw, extra),
                  Labeler_setValues(self, KwExtra(kw, extra)))

StringLabelerSetLabels ==
    \E labels \in Values \cup ListVals :
        Setter("StringLabeler", "setLabels", labels,
               StringLabeler_setLabels(self, labels))

StringLabelerLabels ==
    \E locations \in ListVals :
        Label("StringLabeler", locations, StringLabeler_labels(self, locations))

StringLabelerSetValues ==
    \E kw \in Kwargs({"labels"}), extra \in BOOLEAN :
        Configure("StringLabeler", KwExtra(kw, extra),
                  Labeler_setValues(self, KwExtra(kw, extra)))

FormatLabelerSetFormatter ==
    \E fmt \in Values :
        Setter("FormatLabeler", "setFormatter", fmt,
               FormatLabeler_setFormatter(self, fmt))

FormatLabelerLabels ==
    \E locations \in ListVals :
        Label("FormatLabeler", locations, FormatLabeler_labels(self, locations))

FormatLabelerSetValues ==
    \E kw \in Kwargs({"fmt", "format"}), extra \in BOOLEAN :
        Configure("FormatLabeler", KwExtra(kw, extra),
                  Labeler_setValues(self, KwExtra(kw, extra)))

Next ==
    \/ NullLocatorLocations
    \/ NullLocatorSetValues
    \/ LinearLocatorSetNum
    \/ LinearLocatorLocations
    \/ LinearLocatorSetValues
    \/ FixedLocatorSetLocations
    \/ FixedLocatorSetNTicks
    \/ FixedLocatorLocations
    \/ FixedLocatorSetValues
    \/ SpacedLocatorSetBase
    \/ SpacedLocatorSetAnchor
    \/ SpacedLocatorLocations
    \/ SpacedLocatorSetValues
    \/ LogLocatorSetBase
    \/ LogLocatorSetSubdivisions
    \/ LogLocatorLocations
    \/ LogLocatorSetValues
    \/ NullLabelerLabels
    \/ NullLabelerSetValues
    \/ StringLabelerSetLabels
    \/ StringLabelerLabels
    \/ StringLabelerSetValues
    \/ FormatLabelerSetFormatter
    \/ FormatLabelerLabels
    \/ FormatLabelerSetValues

Spec == Init /\ [][Next]_vars

\* ----------------------------------------------------- method dispatch

LocatorClasses == {"NullLocator", "LinearLocator", "FixedLocator",
                   "SpacedLocator", "LogLocator"}
LabelerClasses == {"NullLabeler", "StringLabeler", "FormatLabeler"}

\* s.locations(start, end, axisType): what the call produces
Locations(s, start, end, axisType) ==
    CASE s.cls = "NullLocator" -> NullLocator_locations(s, start, end, axisType)
      [] s.cls = "LinearLocator" -> LinearLocator_locations(s, start, end, axisType)
      [] s.cls = "FixedLocator" -> FixedLocator_locations(s, start, end, axisType).ret
      [] s.cls = "SpacedLocator" -> SpacedLocator_locations(s, start, end, axisType)
      [] s.cls = "LogLocator" -> LogLocator_locations(s, start, end, axisType)

\* s.labels(locations): what the call produces
Labels(s, locations) ==
    CASE s.cls = "NullLabeler" -> NullLabeler_labels(s, locations)
      [] s.cls = "StringLabeler" -> StringLabeler_labels(s, locations)
      [] s.cls = "FormatLabeler" -> FormatLabeler_labels(s, locations)

\* ================================================================ claims

\* C1: for every Labeler variant, in every configuration, labels(positions)
\* returns a sequence as long as positions.
C1_LabelsLength ==
    call.op = "labels" =>
        /\ ret.raised = ""
        /\ Len(ret.value.l) = Len(call.args[1].l)

\* What C2 calls an invalid input of a setter
C2_Invalid(cls, op, v) ==
    CASE cls = "LinearLocator" /\ op = "setNum" -> v.t # "int"
      [] cls = "FixedLocator" /\ op = "setLocations" -> v.t \notin {"list", "tuple"}
      [] cls = "FixedLocator" /\ op = "setNTicks" -> v.t \notin {"NoneType", "int"}
      [] cls = "SpacedLocator" /\ op = "setBase" ->
            v.t \notin {"int", "float"} \/ v.n <= 0
      [] cls = "SpacedLocator" /\ op = "setAnchor" ->
            v.t \notin {"int", "float", "NoneType"}
      [] cls = "LogLocator" /\ op = "setBase" -> v.t \notin {"int", "float"}
      [] cls = "LogLocator" /\ op = "setSubdivisions" -> v.t \notin {"list", "tuple"}
      [] cls = "StringLabeler" /\ op = "setLabels" -> v.t \notin {"list", "tuple"}
      [] cls = "FormatLabeler" /\ op = "setFormatter" -> v.t \notin {"str", "NoneType"}
      [] OTHER -> FALSE

\* The results the object gives on a sample range and sample position lists
C2_Ranges == {<<PyInt(0), PyInt(MaxInt)>>}
C2_Lists == {PyList(Ramp(2)), PyList(Ramp(MaxLen))}
C2_Results(s) ==
    IF s.cls \in LocatorClasses
    THEN [q \in C2_Ranges \X AxisTypes |-> Locations(s, q[1][1], q[1][2], q[2])]
    ELSE [q \in C2_Lists |-> Labels(s, q)]

\* C2: a setter called with an input that is invalid for it leaves the whole
\* configuration unchanged and raises nothing, so locations / labels give
\* the same results before and after the rejected update.
C2_SilentRejection ==
    [][(Len(call'.args) = 1 /\ C2_Invalid(self.cls, call'.op, call'.args[1])) =>
            /\ self' = self
            /\ ret'.raised = ""
            /\ C2_Results(self') = C2_Results(self)]_vars

\* A rejected update of an object that was configured away from its defaults
C2_Witness ==
    /\ self.cls = "SpacedLocator"
    /\ call.op = "setBase"
    /\ call.args[1] = PyInt(0)
    /\ self.base = PyInt(2)
    /\ self.anchor = PyInt(3)

\* What C3 calls a valid value of a recognised keyword, and the value the
\* field then holds (tickLimit is clamped to 2, subdivisions become a list)
C3_Valid(cls, key, v) ==
    CASE key = "num" -> v.t = "int"
      [] key = "locations" -> v.t \in {"list", "tuple"}
      [] key = "nTicks" -> v.t \in {"NoneType", "int"}
      [] key = "base" /\ cls = "SpacedLocator" -> v.t \in {"int", "float"} /\ v.n > 0
      [] key = "base" /\ cls = "LogLocator" -> v.t \in {"int", "float"}
      [] key = "anchor" -> v.t \in {"int", "float", "NoneType"}
      [] key = "subdivisions" -> v.t \in {"list", "tuple"}
      [] OTHER -> FALSE

C3_Stored(key, v) ==
    IF key = "nTicks" /\ v.t = "int" /\ v.n < 2 THEN PyInt(2)
    ELSE IF key = "subdivisions" THEN PyList(v.l)
    ELSE v

\* C3: setValues of a Locator changes only the fields whose keyword is
\* present with a valid value (to that value); an absent keyword leaves its
\* field unchanged and unknown keywords are ignored without error.  For
\* SpacedLocator: no anchor keyword keeps the anchor, anchor = None clears
\* it, a numeric anchor sets it.
C3_PartialUpdate ==
    [][(call'.op = "setValues" /\ self.cls \in LocatorClasses) =>
        LET kw == call'.args[1]
        IN  /\ ret'.raised = ""
            /\ DOMAIN self' = DOMAIN self
            /\ self'.cls = self.cls
            /\ \A f \in DOMAIN self \ {"cls"} :
                 IF f \in DOMAIN kw /\ C3_Valid(self.cls, f, kw[f])
                 THEN self'[f] = C3_Stored(f, kw[f])
                 ELSE self'[f] = self[f]
            /\ self.cls = "SpacedLocator" =>
                 /\ "anchor" \notin DOMAIN kw => self'.anchor = self.anchor
                 /\ ("anchor" \in DOMAIN kw /\ kw["anchor"].t = "NoneType")
                        => self'.anchor = PyNone
                 /\ ("anchor" \in DOMAIN kw /\ kw["anchor"].t \in {"int", "float"})
                        => self'.anchor = kw["anchor"]]_vars

\* A SpacedLocator that kept its anchor through a setValues without one
C3_Witness ==
    /\ self.cls = "SpacedLocator"
    /\ call.op = "setValues"
    /\ DOMAIN call.args[1] = {"base", "color"}
    /\ self.base = PyInt(2)
    /\ self.anchor = PyInt(3)

\* C4: setValues on a StringLabeler with a valid labels option, or on a
\* FormatLabeler with a valid format option, updates the field exactly as
\* setLabels / setFormatter would, and the following labels() call reflects it.
C4_SetValuesLikeSetter ==
    [][(call'.op = "setValues" /\ self.cls \in {"StringLabeler", "FormatLabeler"}) =>
        LET kw == call'.args[1]
        IN  /\ (self.cls = "StringLabeler" /\ "labels" \in DOMAIN kw
                    /\ kw["labels"].t \in {"list", "tuple"})
                 => /\ self' = StringLabeler_setLabels(self, kw["labels"])
                    /\ \A q \in C2_Lists : Labels(self', q) =
                          Labels(StringLabeler_setLabels(self, kw["labels"]), q)
            /\ \A key \in {"fmt", "format"} :
                 (self.cls = "FormatLabeler" /\ key \in DOMAIN kw
                    /\ kw[key].t \in {"str", "NoneType"})
                 => /\ self' = FormatLabeler_setFormatter(self, kw[key])
                    /\ \A q \in C2_Lists : Labels(self', q) =
                          Labels(FormatLabeler_setFormatter(self, kw[key]), q)]_vars

\* C5: the count of a LinearLocator is an integer >= 1 in every reachable state.
C5_CountPositive ==
    self.cls = "LinearLocator" => (self.num.t = "int" /\ self.num.n >= 1)

\* C6: for every Locator variant in any reachable configuration and any
\* range with start <= end, locations() returns a sequence and raises nothing.
C6_LocationsNeverRaise ==
    call.op = "locations" => (ret.raised = "" /\ ret.value.t \in {"list", "tuple"})

\* C7: locations() and labels() leave every configuration field unchanged,
\* and a call repeated with the same arguments straight after gives the
\* same result.
C7_PureQueries ==
    [][call'.op \in {"locations", "labels"} =>
        /\ self' = self
        /\ call' = call => ret' = ret
        /\ self.cls \in LocatorClasses =>
             ret' = Locations(self', call'.args[1], call'.args[2], call'.args[3])
        /\ self.cls \in LabelerClasses => ret' = Labels(self', call'.args[1])]_vars

\* A FixedLocator that has just subsampled its positions
C7_Witness ==
    /\ self.cls = "FixedLocator"
    /\ call.op = "locations"
    /\ self.nTicks.t = "int"
    /\ self.nTicks.n < Len(self.locations.l)
    /\ ret.raised = ""
    /\ Len(ret.value.l) = self.nTicks.n

C9_Round(p, q) ==
    CHOOSE k \in 0..(p + 1) : 2 * k * q - q <= 2 * p /\ 2 * p < 2 * k * q + q

RECURSIVE C11_FloorFrom(_, _, _)
C11_FloorFrom(x, B, e) ==
    IF Lt(x, Pow(B, e + 1)) THEN e ELSE C11_FloorFrom(x, B, e + 1)
RECURSIVE C11_CeilFrom(_, _, _)
C11_CeilFrom(x, B, e) ==
    IF Le(x, Pow(B, e)) THEN e ELSE C11_CeilFrom(x, B, e + 1)
C11_Floor(x, B) == C11_FloorFrom(x, B, -2)
C11_Ceil(x, B) == C11_CeilFrom(x, B, -2)

\* C11: a LogLocator with base B > 1 and numeric subdivisions S emits, for
\* each exponent e from firstExponent to lastExponent in increasing order and
\* each s in S in order, s * B^e, where firstExponent = floor(log_B(start))
\* (0 when start <= 0) and lastExponent = ceil(log_B(end)) (0 when end <= 0);
\* that is (lastExponent - firstExponent + 1) * len(S) positions, and the
\* same for the major and the minor axis.
C11_LogPositions ==
    (/\ self.cls = "LogLocator"
     /\ call.op = "locations"
     /\ Gt(self.base, PyInt(1))
     /\ \A i \in 1..Len(self.subdivisions.l) :
            self.subdivisions.l[i].t \in {"int", "float"}) =>
        LET start == call.args[1]
            end == call.args[2]
            B == self.base
            S == self.subdivisions.l
            first == IF Le(start, PyInt(0)) THEN 0 ELSE C11_Floor(start, B)
            last == IF Le(end, PyInt(0)) THEN 0 ELSE C11_Ceil(end, B)
            l == ret.value.l
        IN  /\ ret.raised = ""
            /\ \A axisType \in AxisTypes :
                 LogLocator_locations(self, start, end, axisType) = ret
            /\ IF first <= last
               THEN /\ Len(l) = (last - first + 1) * Len(S)
                    /\ \A e \in first..last : \A i \in 1..Len(S) :
                         NumEq(l[(e - first) * Len(S) + i], Mul(S[i], Pow(B, e)))
               ELSE l = <<>>

\* C12: SpacedLocator.locations with base > 0, any anchor (unset, inside or
\* outside [start, end]) and start <= end emits only the closest grid values
\* at or beyond the range edges: the last position is >= end and every other
\* position is < end, the first position is <= start and every other
\* position is > start.
C12_ClosestEdges ==
    (self.cls = "SpacedLocator" /\ call.op = "locations") =>
        LET start == call.args[1]
            end == call.args[2]
            l == ret.value.l
        IN  /\ ret.raised = ""
            /\ Len(l) >= 1
            /\ Ge(l[Len(l)], end)
            /\ Le(l[1], start)
            /\ \A i \in 1..(Len(l) - 1) : Lt(l[i], end)
            /\ \A i \in 2..Len(l) : Gt(l[i], start)

====
